---- MODULE Spec2Model ----
(***************************************************************************)
(* BaseStack (test_infra/stacks/base_stack.py): the constructor declares a *)
(* fixed graph of constructs on the stack, statement by statement, and     *)
(* three accessors expose the bucket, the network and the key.             *)
(*                                                                         *)
(* A construct is a record [id, type, lits, tokens, tags]:                 *)
(*   lits   - the properties given as literals,                            *)
(*   tokens - the properties given as references to other constructs.      *)
(* A token [of, sub, attr, fmt] is attribute `attr` of the construct at    *)
(* path `sub` below the stack child `of`, rendered into the template fmt.  *)
(***************************************************************************)
EXTENDS Naturals, Sequences, FiniteSets, TLC

VARIABLES
    inp,       \* the constructor's arguments: scope, construct_id, kwargs
    nonce,     \* what differs from one process to the next (clock, object addresses)
    pc,        \* the statement of __init__ about to run, or "done" / "failed"
    stack,     \* what super().__init__ set up: the stack's path and region
    children,  \* the constructs registered on the stack, in registration order
    self,      \* the fields self.vpc, self.key, self.bucket (construct ids)
    locals,    \* glue_data_quality_role, glue_db, log_group, log_stream
    i,         \* how many public subnets the for loop has handled
    err,       \* the exception that ended __init__, if any
    ret,       \* the last accessor read and what it returned
    created,   \* the resources the provisioning engine has created
    prev       \* the outcome of the previous run of the declaration

vars == <<inp, nonce, pc, stack, children, self, locals, i, err, ret, created, prev>>

----------------------------------------------------------------------------
(* Bounds of the model *)

\* the most public subnets the network may yield
MaxPublic == 4
\* the most private subnets the network may yield
MaxPrivate == 2

Scopes == {"app", "stage"}
ConstructIds == {"aws-sdk-pandas-base", "base2"}
\* **kwargs: empty, or an environment that fixes the region
KwargsSet == {<<>>, [region |-> "us-east-1"]}
Nonces == {"t0", "t1"}

None == "None"
NoErr == [type |-> "none", at |-> None]
NoRet == [accessor |-> "none", value |-> None]
NoRun == [status |-> "none"]

----------------------------------------------------------------------------
(* Values *)

Lit(s) == [kind |-> "literal", text |-> s]
Tok(of, sub, attr, fmt) ==
    [kind |-> "token", of |-> of, sub |-> sub, attr |-> attr, fmt |-> fmt]
Attr(of, attr) == Tok(of, "", attr, "{}")
Days(n) == [unit |-> "days", amount |-> n]

\* Stack.region: the region of the environment when one is given, else the
\* deploy-time pseudo parameter
StackRegion(kwargs) ==
    IF "region" \in DOMAIN kwargs THEN Lit(kwargs["region"])
    ELSE [kind |-> "pseudo", name |-> "AWS::Region"]

Construct(id, type, lits, tokens) ==
    [id |-> id, type |-> type, lits |-> lits, tokens |-> tokens, tags |-> <<>>]

ChildIds == {children[k].id : k \in DOMAIN children}
Child(id) == children[CHOOSE k \in DOMAIN children : children[k].id = id]
OfType(t) == {k \in DOMAIN children : children[k].type = t}

\* the stack children a construct refers to
Refs(c) == {c.tokens[p].of : p \in DOMAIN c.tokens}

----------------------------------------------------------------------------
(* The constructs, one definition per declaration of __init__ *)

VpcId == "aws-sdk-pandas-vpc"

PublicSubnetNode(k) ==
    [node_id |-> "PublicSubnet" \o ToString(k), children |-> {"EIP"}]
PrivateSubnetNode(k) ==
    [node_id |-> "PrivateSubnet" \o ToString(k), children |-> {}]

\* ec2.Vpc with the default subnet configuration: the subnets it yields are
\* named <Group>Subnet<n>, and each public subnet holds a NAT gateway's EIP
VpcConstruct(nPublic, nPrivate) ==
    Construct(VpcId, "Vpc",
        [cidr |-> "11.19.224.0/19",
         enable_dns_hostnames |-> TRUE,
         enable_dns_support |-> TRUE,
         public_subnets |-> [k \in 1..nPublic |-> PublicSubnetNode(k)],
         private_subnets |-> [k \in 1..nPrivate |-> PrivateSubnetNode(k)]],
        <<>>)

VpcTags == [Name |-> "aws-sdk-pandas"]

\* a faulty variant: the id is drawn from what differs between processes
EipParameterIdUnique(public_subnet) ==
    public_subnet.node_id \o " " \o nonce \o " EIP SSM"
EipParameterId(public_subnet) == public_subnet.node_id \o " EIP SSM"
\* a faulty variant: every record holds the first subnet's elastic IP
EipParameterValueFirst(vpc, public_subnet) ==
    Tok(vpc, "PublicSubnet1/EIP", "ref", "{}")
EipParameterValue(vpc, public_subnet) ==
    Tok(vpc, public_subnet.node_id \o "/EIP", "ref", "{}")

EipParameter(vpc, public_subnet) ==
    Construct(EipParameterId(public_subnet), "StringParameter",
        [parameter_name |-> "/SDKPandas/VPC/" \o public_subnet.node_id \o "/EIP"],
        [string_value |-> EipParameterValue(vpc, public_subnet),
         description |-> Tok(vpc, public_subnet.node_id, "subnet_id",
                             "Elastic IP associated with public subnet {}")])

KeyConstruct ==
    Construct("aws-sdk-pandas-key", "Key",
        [description |-> "AWS SDK for pandas Test Key.",
         policy |-> << [sid |-> "Enable IAM User Permissions",
                        effect |-> "ALLOW",
                        actions |-> <<"kms:*">>,
                        principals |-> <<"AccountRootPrincipal">>,
                        resources |-> <<"*">>] >>],
        <<>>)

\* a faulty variant: the alias reuses the key's construct id
AliasIdClash == "aws-sdk-pandas-key"
AliasId == "aws-sdk-pandas-key-alias"

\* a faulty variant: the alias names its key by a literal, not by reference
AliasTokensNone(key) == <<>>
AliasTokens(key) == [target_key |-> Attr(key, "ref")]

AliasConstruct(key) ==
    Construct(AliasId, "Alias",
        [alias_name |-> "alias/aws-sdk-pandas-key"],
        AliasTokens(key))

\* a faulty variant: objects expire after a week
LifecycleRulesWeek ==
    << [id |-> "CleaningUp",
        enabled |-> TRUE,
        expiration |-> Days(7),
        abort_incomplete_multipart_upload_after |-> Days(1)] >>
LifecycleRules ==
    << [id |-> "CleaningUp",
        enabled |-> TRUE,
        expiration |-> Days(1),
        abort_incomplete_multipart_upload_after |-> Days(1)] >>

BucketConstruct ==
    Construct("aws-sdk-pandas", "Bucket",
        [block_public_access |-> [block_public_acls |-> TRUE,
                                  block_public_policy |-> TRUE,
                                  ignore_public_acls |-> TRUE,
                                  restrict_public_buckets |-> TRUE],
         lifecycle_rules |-> LifecycleRules,
         versioned |-> TRUE],
        <<>>)

RoleConstruct ==
    Construct("aws-sdk-pandas-glue-data-quality-role", "Role",
        [role_name |-> "GlueDataQualityRole",
         assumed_by |-> "glue.amazonaws.com",
         managed_policies |-> <<"AmazonS3FullAccess", "AWSGlueConsoleFullAccess">>,
         inline_policies |->
             [GetDataAccess |-> << [actions |-> <<"lakeformation:GetDataAccess">>,
                                    resources |-> <<"*">>] >>]],
        <<>>)

DatabaseConstruct(bucket) ==
    Construct("aws_sdk_pandas_glue_database", "Database",
        [database_name |-> "aws_sdk_pandas"],
        [location_uri |-> Tok(bucket, "", "bucket_name", "s3://{}")])

\* a faulty variant: INSERT is left out
PermissionsNoInsert == <<"SELECT", "ALTER", "DESCRIBE", "DROP", "DELETE">>
Permissions == <<"SELECT", "ALTER", "DESCRIBE", "DROP", "DELETE", "INSERT">>

PermissionsConstruct(role, db) ==
    Construct("GlueDataQualitytRoleLFPermissions", "CfnPermissions",
        [permissions |-> Permissions,
         table_wildcard |-> TRUE],
        [data_lake_principal_identifier |-> Attr(role, "role_arn"),
         database_name |-> Attr(db, "database_name")])

LogGroupConstruct ==
    Construct("aws_sdk_pandas_log_group", "LogGroup",
        [retention |-> "ONE_MONTH"],
        <<>>)

LogStreamConstruct(log_group) ==
    Construct("aws_sdk_pandas_log_stream", "LogStream",
        <<>>,
        [log_group |-> Attr(log_group, "log_group_name")])

\* CfnOutput(self, id, value=..., export_name=...)
Output(id, value, export_name) ==
    [id |-> id, type |-> "CfnOutput", lits |-> [export_name |-> export_name],
     value |-> value, tokens |-> IF value.kind = "token" THEN [value |-> value] ELSE <<>>,
     tags |-> <<>>]


\* the subscripts of the four subnet outputs (0-based, as in the source)
PublicSubnet1Ref == [list |-> "public_subnets", index |-> 0]
\* a faulty variant: the second output subscripts the first subnet
PublicSubnet2RefFirst == [list |-> "public_subnets", index |-> 0]
PublicSubnet2Ref == [list |-> "public_subnets", index |-> 1]
PublicSubnet3Ref == [list |-> "public_subnets", index |-> 2]
\* a faulty variant: the private output subscripts the public list
PrivateSubnetRefPublic == [list |-> "public_subnets", index |-> 0]
PrivateSubnetRef == [list |-> "private_subnets", index |-> 0]

\* vpc.<list>: the subnets the declared network yields
SubnetList(ref) == Child(self.vpc).lits[ref.list]
\* vpc.<list>[index] raises IndexError when the list is too short
InRange(ref) == ref.index < Len(SubnetList(ref))
SubnetIdOf(ref) ==
    Tok(self.vpc, SubnetList(ref)[ref.index + 1].node_id, "subnet_id", "{}")

RegionOutput == Output("Region", stack.region, None)
VpcOutput == Output("VPC", Attr(self.vpc, "vpc_id"), "aws-sdk-pandas-base-VPC")
PublicSubnet1Output ==
    Output("PublicSubnet1", SubnetIdOf(PublicSubnet1Ref),
           "aws-sdk-pandas-base-PublicSubnet1")
PublicSubnet2Output ==
    Output("PublicSubnet2", SubnetIdOf(PublicSubnet2Ref),
           "aws-sdk-pandas-base-PublicSubnet2")
PublicSubnet3Output ==
    Output("PublicSubnet3", SubnetIdOf(PublicSubnet3Ref),
           "aws-sdk-pandas-base-PublicSubnet3")
PrivateSubnetOutput ==
    Output("PrivateSubnet", SubnetIdOf(PrivateSubnetRef),
           "aws-sdk-pandas-base-PrivateSubnet")
KmsKeyArnOutput ==
    Output("KmsKeyArn", Attr(self.key, "key_arn"), "aws-sdk-pandas-base-KmsKeyArn")
BucketNameOutput ==
    Output("BucketName", Attr(self.bucket, "bucket_name"),
           "aws-sdk-pandas-base-BucketName")
GlueDatabaseNameOutput ==
    Output("GlueDatabaseName", Attr(locals.glue_db, "database_name"), None)
GlueDataQualityRoleOutput ==
    Output("GlueDataQualityRole", Attr(locals.glue_data_quality_role, "role_arn"), None)
LogGroupNameOutput ==
    Output("LogGroupName", Attr(locals.log_group, "log_group_name"), None)
LogStreamOutput ==
    Output("LogStream", Attr(locals.log_stream, "log_stream_name"), None)

----------------------------------------------------------------------------
(* The state after the caller has chosen the arguments, before __init__ runs *)

NoStack == [path |-> "", region |-> Lit("")]
NoSelf == [vpc |-> None, key |-> None, bucket |-> None]
NoLocals == [glue_data_quality_role |-> None, glue_db |-> None,
             log_group |-> None, log_stream |-> None]

Fresh ==
    /\ pc = "super_init"
    /\ stack = NoStack
    /\ children = <<>>
    /\ self = NoSelf
    /\ locals = NoLocals
    /\ i = 0
    /\ err = NoErr
    /\ ret = NoRet
    /\ created = {}

Init ==
    /\ inp \in [scope : Scopes, construct_id : ConstructIds, kwargs : KwargsSet]
    /\ nonce = "t0"
    /\ prev = NoRun
    /\ Fresh

----------------------------------------------------------------------------
(* __init__, statement by statement *)

\* a construct registers itself in its scope under its id; the scope refuses
\* an id it already holds, and the exception ends __init__
CanDeclare(c) == c.id \notin ChildIds
Declare(c, next) ==
    IF CanDeclare(c)
    THEN /\ children' = Append(children, c)
         /\ pc' = next
         /\ err' = err
    ELSE /\ children' = children
         /\ pc' = "failed"
         /\ err' = [type |-> "DuplicateId", at |-> c.id]

Raise(type, at) ==
    /\ pc' = "failed"
    /\ err' = [type |-> type, at |-> at]
    /\ children' = children

\* what no statement of __init__ touches
Outside == <<inp, nonce, ret, created, prev>>

SuperInit ==
    /\ pc = "super_init"
    /\ stack' = [path |-> inp.scope \o "/" \o inp.construct_id,
                 region |-> StackRegion(inp.kwargs)]
    /\ pc' = "vpc"
    /\ UNCHANGED <<children, self, locals, i, err, Outside>>

\* The subnets are the network construct's answer, not this code's: any number
\* of public and of private subnets up to the bounds may come back.
DeclareVpc ==
    /\ pc = "vpc"
    /\ \E nPublic \in 0..MaxPublic, nPrivate \in 0..MaxPrivate :
        LET c == VpcConstruct(nPublic, nPrivate) IN
        /\ Declare(c, "tags")
        /\ self' = IF CanDeclare(c) THEN [self EXCEPT !.vpc = c.id] ELSE self
    /\ UNCHANGED <<stack, locals, i, Outside>>

TagVpc ==
    /\ pc = "tags"
    /\ LET k == CHOOSE k \in DOMAIN children : children[k].id = self.vpc IN
       children' = [children EXCEPT ![k].tags = VpcTags]
    /\ pc' = "eip_loop"
    /\ UNCHANGED <<stack, self, locals, i, err, Outside>>

\* one pass of `for public_subnet in self.vpc.public_subnets`
DeclareEipParameter ==
    /\ pc = "eip_loop"
    /\ i < Len(Child(self.vpc).lits.public_subnets)
    /\ LET public_subnet == Child(self.vpc).lits.public_subnets[i + 1] IN
       IF "EIP" \in public_subnet.children
       THEN Declare(EipParameter(self.vpc, public_subnet), "eip_loop")
       ELSE Raise("FindChildError", public_subnet.node_id)
    /\ i' = i + 1
    /\ UNCHANGED <<stack, self, locals, Outside>>

EndEipLoop ==
    /\ pc = "eip_loop"
    /\ i = Len(Child(self.vpc).lits.public_subnets)
    /\ pc' = "key"
    /\ UNCHANGED <<stack, children, self, locals, i, err, Outside>>

DeclareKey ==
    /\ pc = "key"
    /\ Declare(KeyConstruct, "alias")
    /\ self' = IF CanDeclare(KeyConstruct)
               THEN [self EXCEPT !.key = KeyConstruct.id] ELSE self
    /\ UNCHANGED <<stack, locals, i, Outside>>

DeclareAlias ==
    /\ pc = "alias"
    /\ Declare(AliasConstruct(self.key), "bucket")
    /\ UNCHANGED <<stack, self, locals, i, Outside>>

DeclareBucket ==
    /\ pc = "bucket"
    /\ Declare(BucketConstruct, "role")
    /\ self' = IF CanDeclare(BucketConstruct)
               THEN [self EXCEPT !.bucket = BucketConstruct.id] ELSE self
    /\ UNCHANGED <<stack, locals, i, Outside>>

DeclareRole ==
    /\ pc = "role"
    /\ Declare(RoleConstruct, "glue_db")
    /\ locals' = IF CanDeclare(RoleConstruct)
                 THEN [locals EXCEPT !.glue_data_quality_role = RoleConstruct.id]
                 ELSE locals
    /\ UNCHANGED <<stack, self, i, Outside>>

DeclareDatabase ==
    /\ pc = "glue_db"
    /\ LET c == DatabaseConstruct(self.bucket) IN
       /\ Declare(c, "lf_permissions")
       /\ locals' = IF CanDeclare(c) THEN [locals EXCEPT !.glue_db = c.id] ELSE locals
    /\ UNCHANGED <<stack, self, i, Outside>>

DeclarePermissions ==
    /\ pc = "lf_permissions"
    /\ Declare(PermissionsConstruct(locals.glue_data_quality_role, locals.glue_db),
               "log_group")
    /\ UNCHANGED <<stack, self, locals, i, Outside>>

DeclareLogGroup ==
    /\ pc = "log_group"
    /\ Declare(LogGroupConstruct, "log_stream")
    /\ locals' = IF CanDeclare(LogGroupConstruct)
                 THEN [locals EXCEPT !.log_group = LogGroupConstruct.id]
                 ELSE locals
    /\ UNCHANGED <<stack, self, i, Outside>>

DeclareLogStream ==
    /\ pc = "log_stream"
    /\ LET c == LogStreamConstruct(locals.log_group) IN
       /\ Declare(c, "out_Region")
       /\ locals' = IF CanDeclare(c) THEN [locals EXCEPT !.log_stream = c.id] ELSE locals
    /\ UNCHANGED <<stack, self, i, Outside>>

\* CfnOutput(self, id, value=...): the value is evaluated, then the output registers
DeclareOutput(label, c, next) ==
    /\ pc = label
    /\ Declare(c, next)
    /\ UNCHANGED <<stack, self, locals, i, Outside>>

\* the same, for a value that subscripts a subnet list first
DeclareSubnetOutput(label, id, ref, c, next) ==
    /\ pc = label
    /\ IF InRange(ref) THEN Declare(c, next) ELSE Raise("IndexError", id)
    /\ UNCHANGED <<stack, self, locals, i, Outside>>

\* a faulty variant: the statement passes without registering its output
OutputRegionSkipped ==
    /\ pc = "out_Region"
    /\ pc' = "out_VPC"
    /\ UNCHANGED <<stack, children, self, locals, i, err, Outside>>
OutputRegion == DeclareOutput("out_Region", RegionOutput, "out_VPC")
OutputVPC == DeclareOutput("out_VPC", VpcOutput, "out_PublicSubnet1")
OutputPublicSubnet1 ==
    DeclareSubnetOutput("out_PublicSubnet1", "PublicSubnet1", PublicSubnet1Ref,
                        PublicSubnet1Output, "out_PublicSubnet2")
OutputPublicSubnet2 ==
    DeclareSubnetOutput("out_PublicSubnet2", "PublicSubnet2", PublicSubnet2Ref,
                        PublicSubnet2Output, "out_PublicSubnet3")
OutputPublicSubnet3 ==
    DeclareSubnetOutput("out_PublicSubnet3", "PublicSubnet3", PublicSubnet3Ref,
                        PublicSubnet3Output, "out_PrivateSubnet")
OutputPrivateSubnet ==
    DeclareSubnetOutput("out_PrivateSubnet", "PrivateSubnet", PrivateSubnetRef,
                        PrivateSubnetOutput, "out_KmsKeyArn")
OutputKmsKeyArn == DeclareOutput("out_KmsKeyArn", KmsKeyArnOutput, "out_BucketName")
OutputBucketName ==
    DeclareOutput("out_BucketName", BucketNameOutput, "out_GlueDatabaseName")
OutputGlueDatabaseName ==
    DeclareOutput("out_GlueDatabaseName", GlueDatabaseNameOutput,
                  "out_GlueDataQualityRole")
OutputGlueDataQualityRole ==
    DeclareOutput("out_GlueDataQualityRole", GlueDataQualityRoleOutput,
                  "out_LogGroupName")
OutputLogGroupName ==
    DeclareOutput("out_LogGroupName", LogGroupNameOutput, "out_LogStream")
OutputLogStream == DeclareOutput("out_LogStream", LogStreamOutput, "done")

Construction ==
    \/ SuperInit
    \/ DeclareVpc
    \/ TagVpc
    \/ DeclareEipParameter
    \/ EndEipLoop
    \/ DeclareKey
    \/ DeclareAlias
    \/ DeclareBucket
    \/ DeclareRole
    \/ DeclareDatabase
    \/ DeclarePermissions
    \/ DeclareLogGroup
    \/ DeclareLogStream
    \/ OutputRegion
    \/ OutputVPC
    \/ OutputPublicSubnet1
    \/ OutputPublicSubnet2
    \/ OutputPublicSubnet3
    \/ OutputPrivateSubnet
    \/ OutputKmsKeyArn
    \/ OutputBucketName
    \/ OutputGlueDatabaseName
    \/ OutputGlueDataQualityRole
    \/ OutputLogGroupName
    \/ OutputLogStream

----------------------------------------------------------------------------
(* The accessors, read by the code that holds a constructed stack *)

\* a faulty variant: get_key returns the bucket
get_key_bucket == self.bucket
get_bucket == self.bucket
get_vpc == self.vpc
get_key == self.key

Read(accessor, value) ==
    /\ pc = "done"
    /\ ret' = [accessor |-> accessor, value |-> value]
    /\ UNCHANGED <<inp, nonce, pc, stack, children, self, locals, i, err, created, prev>>

GetBucket == Read("get_bucket", get_bucket)
GetVpc == Read("get_vpc", get_vpc)
GetKey == Read("get_key", get_key)

Next == Construction \/ GetBucket \/ GetVpc \/ GetKey

Spec == Init /\ [][Next]_vars

----------------------------------------------------------------------------
(* The provisioning engine: it creates the declared resources of a finished *)
(* declaration one at a time, a resource only after those it refers to      *)

Resources == {children[k].id : k \in DOMAIN children \ OfType("CfnOutput")}

Create(id) ==
    /\ pc = "done"
    /\ id \in Resources \ created
    /\ Refs(Child(id)) \subseteq created
    /\ created' = created \cup {id}
    /\ UNCHANGED <<inp, nonce, pc, stack, children, self, locals, i, err, ret, prev>>

Provision == \E id \in ChildIds : Create(id)

NextDeploy == Construction \/ Provision

SpecDeploy == Init /\ [][NextDeploy]_vars

----------------------------------------------------------------------------
(* Running the declaration again: a new process, the same arguments *)

Outcome == [status |-> pc, children |-> children, err |-> err]

Rerun ==
    /\ pc \in {"done", "failed"}
    /\ prev = NoRun
    /\ prev' = Outcome
    /\ nonce' \in Nonces
    /\ inp' = inp
    /\ pc' = "super_init"
    /\ stack' = NoStack
    /\ children' = <<>>
    /\ self' = NoSelf
    /\ locals' = NoLocals
    /\ i' = 0
    /\ err' = NoErr
    /\ UNCHANGED <<ret, created>>

NextRerun == Construction \/ Rerun

SpecRerun == Init /\ [][NextRerun]_vars

----------------------------------------------------------------------------
(* What the claims speak of *)

Outputs == {children[k] : k \in OfType("CfnOutput")}
OutputIds == {c.id : c \in Outputs}
Exported == {c \in Outputs : c.lits.export_name # None}
TheOnly(t) == children[CHOOSE k \in OfType(t) : TRUE]
VpcDeclared == OfType("Vpc") # {}
PublicSubnets == TheOnly("Vpc").lits.public_subnets
PrivateSubnets == TheOnly("Vpc").lits.private_subnets
Parameters == {children[k] : k \in OfType("StringParameter")}

\* the outputs in the order __init__ declares them
OutputOrder ==
    <<"Region", "VPC", "PublicSubnet1", "PublicSubnet2", "PublicSubnet3",
      "PrivateSubnet", "KmsKeyArn", "BucketName", "GlueDatabaseName",
      "GlueDataQualityRole", "LogGroupName", "LogStream">>
Pos(id) == CHOOSE k \in DOMAIN OutputOrder : OutputOrder[k] = id
OutputsBefore(id) == {OutputOrder[k] : k \in 1..(Pos(id) - 1)}

\* the resource types declared once each
SingleTypes ==
    {"Vpc", "Key", "Alias", "Bucket", "Role", "Database", "CfnPermissions",
     "LogGroup", "LogStream"}

\* the for loop over the public subnets has run to its end
PastEipLoop ==
    \/ pc \notin {"super_init", "vpc", "tags", "eip_loop", "failed"}
    \/ pc = "failed" /\ err.type = "IndexError"

----------------------------------------------------------------------------
(* C1, as stated: after a construction the stack holds exactly 11 outputs *)
C1_ElevenOutputs ==
    pc = "done" => Cardinality(OfType("CfnOutput")) = 11

(* C1, amended: after every completed construction the stack holds exactly *)
(* 12 outputs: the eleven the claim lists and the Region output             *)
C1_TwelveOutputs ==
    pc = "done" =>
        /\ Cardinality(OfType("CfnOutput")) = 12
        /\ OutputIds = {OutputOrder[k] : k \in DOMAIN OutputOrder}

C1_Witness ==
    /\ pc = "done"
    /\ "Region" \in OutputIds
    /\ Cardinality(OfType("CfnOutput")) > 11

(* C2: exactly seven outputs carry an export name; the names are the seven *)
(* fixed ones, pairwise distinct, each on the output of the resource it    *)
(* names (PublicSubnetN on the N-th public subnet)                         *)
C2_ExportNames ==
    pc = "done" =>
        LET vpc == TheOnly("Vpc").id
            sub(list, n) == Tok(vpc, list[n].node_id, "subnet_id", "{}")
        IN  /\ {<<c.id, c.lits.export_name, c.value>> : c \in Exported} =
                 { <<"VPC", "aws-sdk-pandas-base-VPC", Attr(vpc, "vpc_id")>>,
                   <<"PublicSubnet1", "aws-sdk-pandas-base-PublicSubnet1",
                     sub(PublicSubnets, 1)>>,
                   <<"PublicSubnet2", "aws-sdk-pandas-base-PublicSubnet2",
                     sub(PublicSubnets, 2)>>,
                   <<"PublicSubnet3", "aws-sdk-pandas-base-PublicSubnet3",
                     sub(PublicSubnets, 3)>>,
                   <<"PrivateSubnet", "aws-sdk-pandas-base-PrivateSubnet",
                     sub(PrivateSubnets, 1)>>,
                   <<"KmsKeyArn", "aws-sdk-pandas-base-KmsKeyArn",
                     Attr(TheOnly("Key").id, "key_arn")>>,
                   <<"BucketName", "aws-sdk-pandas-base-BucketName",
                     Attr(TheOnly("Bucket").id, "bucket_name")>> }
            /\ Cardinality({c.lits.export_name : c \in Exported}) = 7
            /\ Cardinality(Exported) = 7

C2_Witness ==
    /\ pc = "done"
    /\ Len(PublicSubnets) > 3
    /\ \E c \in Exported : c.id = "PublicSubnet3"

(* C3: one permission grant; its actions are exactly SELECT, ALTER,        *)
(* DESCRIBE, DROP, DELETE, INSERT; its principal is the data-quality role  *)
(* and its resource every table of the catalog database of this stack      *)
C3_PermissionGrant ==
    /\ Cardinality(OfType("CfnPermissions")) <= 1
    /\ pc = "done" => Cardinality(OfType("CfnPermissions")) = 1
    /\ \A k \in OfType("CfnPermissions") :
        LET g == children[k] IN
        /\ {g.lits.permissions[n] : n \in DOMAIN g.lits.permissions} =
               {"SELECT", "ALTER", "DESCRIBE", "DROP", "DELETE", "INSERT"}
        /\ Len(g.lits.permissions) = 6
        /\ g.tokens.data_lake_principal_identifier =
               Attr(TheOnly("Role").id, "role_arn")
        /\ TheOnly("Role").lits.role_name = "GlueDataQualityRole"
        /\ g.tokens.database_name = Attr(TheOnly("Database").id, "database_name")
        /\ g.lits.table_wildcard

C3_Witness ==
    /\ pc = "log_group"
    /\ OfType("CfnPermissions") # {}

(* C4: once the loop over the public subnets has ended, the parameter      *)
(* records and the public subnets correspond one to one: each subnet has   *)
(* exactly one record, holding that subnet's elastic IP and named after    *)
(* that subnet's id, and there is no other record                          *)
C4_EipParameters ==
    PastEipLoop =>
        /\ Cardinality(Parameters) = Len(PublicSubnets)
        /\ \A n \in DOMAIN PublicSubnets :
            Cardinality({p \in Parameters :
                p.tokens.string_value =
                    Tok(TheOnly("Vpc").id, PublicSubnets[n].node_id \o "/EIP",
                        "ref", "{}")}) = 1
        /\ \A p \in Parameters : \E n \in DOMAIN PublicSubnets :
            LET node_id == PublicSubnets[n].node_id IN
            /\ p.tokens.string_value.sub = node_id \o "/EIP"
            /\ p.id = node_id \o " EIP SSM"
            /\ p.lits.parameter_name = "/SDKPandas/VPC/" \o node_id \o "/EIP"
            /\ p.tokens.description.sub = node_id

C4_Witness ==
    /\ pc = "key"
    /\ Len(PublicSubnets) >= 2
    /\ Cardinality(Parameters) >= 2

(* C5: whatever scope, construct id and configuration are passed, the      *)
(* bucket has exactly one lifecycle rule, enabled, with expiration 1 day   *)
(* and abort-incomplete-multipart-upload 1 day                             *)
C5_Lifecycle ==
    /\ pc = "done" => Cardinality(OfType("Bucket")) = 1
    /\ \A k \in OfType("Bucket") :
        LET rules == children[k].lits.lifecycle_rules IN
        /\ Len(rules) = 1
        /\ rules[1].enabled
        /\ rules[1].expiration = Days(1)
        /\ rules[1].abort_incomplete_multipart_upload_after = Days(1)

C5_Witness ==
    /\ pc = "done"
    /\ inp.scope = "stage"
    /\ inp.construct_id = "base2"
    /\ inp.kwargs # <<>>
    /\ OfType("Bucket") # {}

SubnetsOf(cs) ==
    {<<cs[k].lits.public_subnets, cs[k].lits.private_subnets>> :
        k \in {n \in DOMAIN cs : cs[n].type = "Vpc"}}

C7_ExactlyOnce ==
    /\ err.type # "DuplicateId"
    /\ Cardinality(ChildIds) = Len(children)
    /\ \A t \in SingleTypes : Cardinality(OfType(t)) <= 1
    /\ pc = "done" => \A t \in SingleTypes : Cardinality(OfType(t)) = 1

C7_Witness ==
    /\ pc = "done"
    /\ Cardinality(Parameters) > 3
    /\ Len(children) > 24

\* what each accessor returned, against the constructs the stack declared
C8_Returns ==
    /\ ret.accessor = "get_bucket" =>
        /\ ret.value = TheOnly("Bucket").id
        /\ TheOnly("Database").tokens.location_uri.of = ret.value
        /\ Child("BucketName").value.of = ret.value
    /\ ret.accessor = "get_vpc" =>
        /\ ret.value = TheOnly("Vpc").id
        /\ \A id \in {"VPC", "PublicSubnet1", "PublicSubnet2", "PublicSubnet3",
                      "PrivateSubnet"} : Child(id).value.of = ret.value
    /\ ret.accessor = "get_key" =>
        /\ ret.value = TheOnly("Key").id
        /\ TheOnly("Alias").tokens.target_key.of = ret.value
        /\ Child("KmsKeyArn").value.of = ret.value

(* C8: each accessor returns the construct the stack declared (the bucket  *)
(* of the database location and the BucketName output, the network of the  *)
(* subnet outputs, the key of the alias and the KmsKeyArn output), and a   *)
(* read changes nothing of the stack                                       *)
C8_Accessors ==
    /\ []C8_Returns
    /\ [][ret' # ret =>
            UNCHANGED <<inp, pc, stack, children, self, locals, i, err, created>>]_vars

C8_Witness ==
    /\ ret.accessor = "get_key"
    /\ ret.value = "aws-sdk-pandas-key"

CreatedType(t) == \E id \in created : Child(id).type = t

(* C9: every reference points to a construct declared earlier in the same  *)
(* stack, so whatever order the engine creates the resources in, the key   *)
(* exists before the alias, the bucket before the database, the role and   *)
(* the database before the permission grant, the log group before the log  *)
(* stream                                                                  *)
C9_ReferenceOrder ==
    /\ \A k \in DOMAIN children : \A r \in Refs(children[k]) :
        \E j \in 1..(k - 1) : children[j].id = r
    /\ CreatedType("Alias") => CreatedType("Key")
    /\ CreatedType("Database") => CreatedType("Bucket")
    /\ CreatedType("CfnPermissions") => CreatedType("Role") /\ CreatedType("Database")
    /\ CreatedType("LogStream") => CreatedType("LogGroup")
    /\ CreatedType("StringParameter") => CreatedType("Vpc")

C9_Witness ==
    /\ pc = "done"
    /\ created = Resources
    /\ CreatedType("Alias")

FirstMissing ==
    IF Len(PublicSubnets) < 3
    THEN "PublicSubnet" \o ToString(Len(PublicSubnets) + 1)
    ELSE "PrivateSubnet"

(* C10: construction completes only with at least three public subnets and *)
(* one private subnet; with fewer it ends in an IndexError at the first    *)
(* subnet output whose subnet is missing, with every resource and every    *)
(* output before that one registered and no later output                   *)
C10_SubnetIndexError ==
    /\ pc = "done" => Len(PublicSubnets) >= 3 /\ Len(PrivateSubnets) >= 1
    /\ pc = "failed" =>
        /\ Len(PublicSubnets) < 3 \/ Len(PrivateSubnets) < 1
        /\ err = [type |-> "IndexError", at |-> FirstMissing]
        /\ OutputIds = OutputsBefore(FirstMissing)
        /\ \A t \in SingleTypes : Cardinality(OfType(t)) = 1
        /\ Cardinality(Parameters) = Len(PublicSubnets)
    /\ (VpcDeclared /\ (Len(PublicSubnets) < 3 \/ Len(PrivateSubnets) < 1)) =>
        OutputIds \subseteq OutputsBefore(FirstMissing)

C10_Witness ==
    /\ pc = "failed"
    /\ err.at = "PrivateSubnet"
    /\ Len(PublicSubnets) >= 3
    /\ OutputIds = OutputsBefore("PrivateSubnet")

====
